---- MODULE Spec2Model ----
(***************************************************************************)
(* Model of scripts/run_mujoco_eval.py: the episode rollout run_episode    *)
(* (lines 19-68) and the evaluation loop of main (lines 112-119).          *)
(*                                                                         *)
(* The environment, the policy, jax.random, cv2, imageio and the file      *)
(* system are external collaborators.  Each of their calls is a            *)
(* nondeterministic choice over the outcomes the call can have: a value    *)
(* from a small set, or an exception.                                      *)
(*                                                                         *)
(* Three specifications share the actions of run_episode:                  *)
(*   Spec       run_episode called once with arbitrary arguments;          *)
(*   SpecMain   main(): the episode loop with the default arguments;       *)
(*   SpecRepro  main() with a deterministic environment and policy.        *)
(***************************************************************************)
EXTENDS Integers, Sequences, FiniteSets, TLC

VARIABLES
    \* ---- process-wide state and arguments
    imageio,        \* TRUE iff "import imageio.v2" succeeded (lines 10-13)
    cv2,            \* "missing": import cv2 fails (line 28); "raises":
                    \* cv2.resize raises on this env's images; "works"
    caller,         \* "direct" | "main": who called run_episode
    render,         \* run_episode argument / args.render
    record_path,    \* run_episode argument
    max_steps,      \* run_episode argument
    \* ---- main()
    episodes,       \* args.episodes
    video_out,      \* args.video_out
    i,              \* loop index of line 113
    rets,           \* list of returns (line 112)
    out,            \* lines printed by main
    \* ---- run_episode locals
    pc,             \* position in the code
    key, sub,       \* PRNG key and per-step sub-key
    frames,         \* frame buffer (line 21)
    obs, batched, action,
    ep_ret, ep_len,
    terminated, truncated,
    info,           \* value returned by run_episode
    \* ---- the world outside
    envTop,         \* the form of the environment's observations: what
                    \* it puts in ob["pixels"]["top"], or "flat"
    deterministic,  \* TRUE iff env and policy are functions of their inputs
    resetMemo, envMemo, polMemo,   \* answers already given (deterministic case)
    videos,         \* paths of the video files written
    exc,            \* the exception that ended the run, or "none"
    \* ---- history of the current episode
    resetCalls, batchCalls, sampleCalls, stepCalls, renderCalls,
    rewards,        \* rewards received, in order
    epActions,      \* actions submitted to env.step, in order
    epSampled,      \* actions answered by agent.sample_actions, in order
    rawObs,         \* the observation object last returned by the
                    \* environment, as it is after _resize_top has run
    epSubs,         \* sub-keys passed to agent.sample_actions, in order
    epKeys,         \* values held by `key` at the loop head, in order
    endedAt,        \* number of the first step at which the env reported
                    \* terminated or truncated; 0 while it has not
    badFrames,      \* number of env.render results that were no image
    \* ---- history of the run
    runs            \* one record per completed run_episode call

cfgVars  == <<imageio, cv2, caller, render, record_path, max_steps>>
mainVars == <<episodes, video_out, i, rets, out>>
locVars  == <<key, sub, frames, obs, batched, action, ep_ret, ep_len,
              terminated, truncated, info>>
envVars  == <<envTop, deterministic, resetMemo, envMemo, polMemo, videos, exc>>
histVars == <<resetCalls, batchCalls, sampleCalls, stepCalls, renderCalls,
              rewards, epActions, epSampled, rawObs, epSubs, epKeys, endedAt,
              badFrames, runs>>
vars     == <<cfgVars, mainVars, pc, locVars, envVars, histVars>>

----------------------------------------------------------------------------
(* Bounds of the model *)

\* largest max_steps an arbitrary caller passes (Spec)
MaxCeil == 2
\* stand-in for the default max_steps=1000 of line 19 (SpecMain)
DefaultMaxSteps == 2
\* largest args.episodes (SpecMain)
MaxEpisodes == 2

----------------------------------------------------------------------------
(* Values *)

Actions      == {0, 1}
Rewards      == {0, 1}
ObsStates    == {0, 1}
TopKinds     == {"flat", "absent", "target", "other", "gray", "text"}
\* What env.render returns: "image", an ndarray of shape (H, W, 3); "array",
\* an ndarray that is no image (of one dimension, say); "other", no ndarray
\* (None, a list).
FrameKinds   == {"image", "array", "other"}

\* img_hw of line 19, (240, 320) there
img_hw == <<2, 3>>

\* A leaf of an observation.  nd: isinstance(x, np.ndarray); shape and dtype
\* are those of np.asarray(x); data names the content.
Array(shape, dtype, data) ==
    [nd |-> TRUE, shape |-> shape, dtype |-> dtype, data |-> data]

\* a Python str
Str(data) == [nd |-> FALSE, shape |-> <<>>, dtype |-> "str", data |-> data]

IsLeaf(x) == "shape" \in DOMAIN x

\* The observations of an environment of form `kind` (the value of envTop):
\*   "flat"    a bare array, no dict;
\*   "absent"  a dict with state and pixels/wrist but no pixels/top;
\*   "target"  pixels/top is an (H, W, 3) array of shape img_hw;
\*   "other"   pixels/top is an (H, W, 3) array of another shape;
\*   "gray"    pixels/top is an (H, W) array of another shape;
\*   "text"    pixels/top is a str.
\* pixels/wrist is a second camera, of a shape that is not img_hw.
TopLeaf(kind) ==
    CASE kind = "target" -> Array(<<2, 3, 3>>, "uint8", "top")
      [] kind = "other"  -> Array(<<4, 4, 3>>, "uint8", "top")
      [] kind = "gray"   -> Array(<<4, 4>>, "uint8", "top")
      [] kind = "text"   -> Str("top")

StateLeaf(s) == Array(<<2>>, "float", s)

Wrist == Array(<<4, 4, 3>>, "uint8", "wrist")

EnvObs(s, kind) ==
    CASE kind = "flat"   -> StateLeaf(s)
      [] kind = "absent" -> [state |-> StateLeaf(s), pixels |-> [wrist |-> Wrist]]
      [] OTHER           -> [state |-> StateLeaf(s),
                             pixels |-> [wrist |-> Wrist, top |-> TopLeaf(kind)]]

Observations == {EnvObs(s, kind) : s \in ObsStates, kind \in TopKinds}

\* Paths.  None is Python's None; the others are strings.
None        == [none |-> TRUE,  dir |-> "",       base |-> "",   idx |-> 0]
EmptyPath   == [none |-> FALSE, dir |-> "",       base |-> "",   idx |-> 0]
BarePath(n) == [none |-> FALSE, dir |-> "",       base |-> "ep", idx |-> n]
DirPath(n)  == [none |-> FALSE, dir |-> "videos", base |-> "ep", idx |-> n]

\* Python truthiness of a path argument: None and "" are falsy.
Truthy(p) == ~p.none /\ ~(p.dir = "" /\ p.base = "")

\* os.path.dirname
Dirname(p) == p.dir

\* the value of obs before line 22 has bound it
NoObs == <<>>

EmptyMemo == [x \in {} |-> x]

Extend(m, k, v) == [x \in (DOMAIN m) \cup {k} |-> IF x = k THEN v ELSE m[x]]

RECURSIVE Sum(_)
Sum(s) == IF s = <<>> THEN 0 ELSE Head(s) + Sum(Tail(s))

----------------------------------------------------------------------------
(* Pure functions *)

\* jax.random.PRNGKey and jax.random.split.  A key is the path from the seed
\* to the key in the tree of splits: split yields two children, distinct from
\* each other and from every other descendant of the seed.
PRNGKey(seed) == <<seed>>

Split(k) == <<Append(k, 0), Append(k, 1)>>

\* a bug: the key seeded by the episode index instead of the fixed 0
InitialKey_PerEpisode == PRNGKey(i)

\* line 20
InitialKey == PRNGKey(0)

\* a bug: "_, sub = jax.random.split(key)", the key never advanced
NewKey_NotAdvanced(k) == k

\* line 44: key, sub = jax.random.split(key)
NewKey(k) == Split(k)[1]

\* a bug: the episode index folded into the sub-key
NewSub_PerEpisode(k) == Append(Split(k)[2], i)

\* line 44: the sub-key handed to the policy
NewSub(k) == Split(k)[2]

\* np.asarray(x): an ndarray stays as it is, a str becomes a 0-d array of
\* dtype str; no leaf makes it raise
asarray(x) == [x EXCEPT !.nd = TRUE]

\* a[None, ...]
AddAxis(a) == [a EXCEPT !.shape = <<1>> \o @]

\* a bug: a map over the values of the dict instead of a tree_map
_obs_to_batched_TopLevel(ob) ==
    IF IsLeaf(ob)
    THEN AddAxis(asarray(ob))
    ELSE [k \in DOMAIN ob |->
             IF IsLeaf(ob[k]) THEN AddAxis(asarray(ob[k])) ELSE ob[k]]

\* lines 15-17: tree_map descends through the dicts and gives every leaf a
\* leading dimension of size 1
RECURSIVE _obs_to_batched(_)
_obs_to_batched(ob) ==
    IF IsLeaf(ob)
    THEN AddAxis(asarray(ob))
    ELSE [k \in DOMAIN ob |-> _obs_to_batched(ob[k])]

\* line 30
HasTop(ob) ==
    /\ ~IsLeaf(ob)
    /\ "pixels" \in DOMAIN ob
    /\ "top" \in DOMAIN ob.pixels

\* line 32
NeedsResize(img) ==
    /\ img.nd
    /\ Len(img.shape) = 3
    /\ SubSeq(img.shape, 1, 2) # img_hw

\* line 35: cv2.resize(img, (W, H)) yields an array of shape (H, W, C)
cv2_resize(img) == [img EXCEPT !.shape = <<img_hw[1], img_hw[2], @[3]>>]

\* a bug: the resize taken to succeed whatever the backend
_resize_top_BackendAssumed(ob) ==
    IF HasTop(ob) /\ NeedsResize(ob.pixels.top)
    THEN [ob EXCEPT !.pixels.top = cv2_resize(@)]
    ELSE ob

\* lines 26-38.  A failing "import cv2" and a raising cv2.resize are both
\* swallowed by the except of line 36; what is returned is then ob as it
\* came, or the copy of lines 33-34, equal to it.
_resize_top(ob) ==
    IF cv2 = "works" /\ HasTop(ob) /\ NeedsResize(ob.pixels.top)
    THEN [ob EXCEPT !.pixels.top = cv2_resize(@)]
    ELSE ob

\* a bug: the resized image written into the caller's dict
InputAfterResize_InPlace(ob) == _resize_top(ob)

\* lines 33-34: the dicts are copied before line 35 writes, so the object
\* the environment returned keeps its value
InputAfterResize(ob) == ob

\* the batch holds a leaf that is no numeric array
RECURSIVE HasText(_)
HasText(b) ==
    IF IsLeaf(b)
    THEN b.dtype = "str"
    ELSE \E k \in DOMAIN b : HasText(b[k])

\* a bug: "ep_ret = float(r)", the return overwritten
NextRet_Overwrite(ret, r) == r

\* line 51: ep_ret += float(r)
NextRet(ret, r) == ret + r

\* a bug: the increment of ep_len forgotten
NextLen_Stuck(len) == len

\* line 51: ep_len += 1
NextLen(len) == len + 1

\* isinstance(frame, np.ndarray)
IsNdarray(frame) == frame \in {"image", "array"}

\* a bug: the test for the video backend forgotten
KeepFrame_NoBackend(frame) == IsNdarray(frame)

\* line 55
KeepFrame(frame) == IsNdarray(frame) /\ imageio

\* a bug: truncated left out of the test
LoopExit_NoTruncated(term, trunc, len) == term \/ len >= max_steps

\* line 58
LoopExit(term, trunc, len) == term \/ trunc \/ len >= max_steps

\* a bug: the loop resumed after the batching
LoopHead_AfterBatch == "step"

\* line 42: the loop resumes at the batching of line 43
LoopHead == "loop"

\* a bug: the first action of the episode submitted again
StepInput_First == IF epActions = <<>> THEN action ELSE epActions[1]

\* line 48: the argument of env.step
StepInput == action

\* a bug: the test for an empty frame buffer forgotten
FlushGuard_NoLen == Truthy(record_path) /\ imageio

\* line 62
FlushGuard == Truthy(record_path) /\ imageio /\ Len(frames) # 0

\* line 65: the file written by imageio.mimsave
Video(path, fs) == [path |-> path, frames |-> fs]

\* line 68
Result == [return_ |-> ep_ret, length |-> ep_len]

\* what env.step can answer
Responses == [state : ObsStates, r : Rewards,
              terminated : BOOLEAN, truncated : BOOLEAN]

----------------------------------------------------------------------------
(* run_episode *)

\* a bug: the exception caught around the call and the loop of main resumed
Raise_Caught(what) ==
    /\ pc' = "report"
    /\ exc' = what

\* no try encloses the calls of run_episode (lines 19-68) or the call of
\* line 115: an exception ends the program
Raise(what) ==
    /\ pc' = "raised"
    /\ exc' = what

\* lines 20-23 and 40: the key, the frame buffer, env.reset, the accumulators
Enter ==
    /\ pc = "enter"
    /\ resetCalls' = resetCalls + 1
    /\ key' = InitialKey
    /\ frames' = <<>>
    /\ \/ /\ Raise("env.reset")
          /\ UNCHANGED <<obs, rawObs, ep_ret, ep_len, resetMemo>>
       \/ \E s \in ObsStates :
             /\ (deterministic /\ resetMemo # <<>>) => s = resetMemo[1]
             /\ resetMemo' = IF deterministic THEN <<s>> ELSE resetMemo
             /\ obs' = _resize_top(EnvObs(s, envTop))
             /\ rawObs' = InputAfterResize(EnvObs(s, envTop))
             /\ ep_ret' = 0
             /\ ep_len' = 0
             /\ pc' = "loop"
             /\ UNCHANGED exc
    /\ UNCHANGED <<cfgVars, mainVars, sub, batched, action, terminated,
                   truncated, info, envTop, deterministic, envMemo, polMemo,
                   videos, batchCalls, sampleCalls, stepCalls, renderCalls,
                   rewards, epActions, epSampled, epSubs, epKeys, endedAt,
                   badFrames, runs>>

\* lines 43-45: batch the observation, split the key, query the policy
Sample ==
    /\ pc = "loop"
    /\ batched' = _obs_to_batched(obs)
    /\ batchCalls' = batchCalls + 1
    /\ key' = NewKey(key)
    /\ sub' = NewSub(key)
    /\ epKeys' = Append(epKeys, key)
    /\ epSubs' = Append(epSubs, sub')
    /\ sampleCalls' = sampleCalls + 1
    /\ \/ \* a policy that reads a leaf that is no numeric array raises
          /\ HasText(batched')
          /\ Raise("agent.sample_actions")
          /\ UNCHANGED <<action, polMemo, epSampled>>
       \/ \E a \in Actions :
             LET q == <<batched', sub'>> IN
             /\ (deterministic /\ q \in DOMAIN polMemo) => a = polMemo[q]
             /\ polMemo' = IF deterministic
                           THEN Extend(polMemo, q, a)
                           ELSE polMemo
             \* np.asarray(agent.sample_actions(...))[0]
             /\ action' = <<a>>[1]
             /\ epSampled' = Append(epSampled, action')
             /\ pc' = "step"
             /\ UNCHANGED exc
    /\ UNCHANGED <<cfgVars, mainVars, frames, obs, ep_ret, ep_len, terminated,
                   truncated, info, envTop, deterministic, resetMemo, envMemo,
                   videos, resetCalls, stepCalls, renderCalls, rewards,
                   epActions, rawObs, endedAt, badFrames, runs>>

\* lines 48-51: env.step, the resize, the accumulators
Step ==
    /\ pc = "step"
    /\ stepCalls' = stepCalls + 1
    /\ epActions' = Append(epActions, StepInput)
    /\ \/ /\ Raise("env.step")
          /\ UNCHANGED <<obs, rawObs, ep_ret, ep_len, terminated, truncated,
                         envMemo, rewards, endedAt>>
       \/ \E resp \in Responses :
             /\ (deterministic /\ epActions' \in DOMAIN envMemo)
                   => resp = envMemo[epActions']
             /\ envMemo' = IF deterministic
                           THEN Extend(envMemo, epActions', resp)
                           ELSE envMemo
             /\ obs' = _resize_top(EnvObs(resp.state, envTop))
             /\ rawObs' = InputAfterResize(EnvObs(resp.state, envTop))
             /\ terminated' = resp.terminated
             /\ truncated' = resp.truncated
             /\ endedAt' = IF endedAt = 0 /\ (resp.terminated \/ resp.truncated)
                           THEN stepCalls'
                           ELSE endedAt
             /\ rewards' = Append(rewards, resp.r)
             /\ ep_ret' = NextRet(ep_ret, resp.r)
             /\ ep_len' = NextLen(ep_len)
             /\ pc' = IF render THEN "render" ELSE "check"
             /\ UNCHANGED exc
    /\ UNCHANGED <<cfgVars, mainVars, key, sub, frames, batched, action, info,
                   envTop, deterministic, resetMemo, polMemo, videos,
                   resetCalls, batchCalls, sampleCalls, renderCalls,
                   epSampled, epSubs, epKeys, badFrames, runs>>

\* lines 53-56, reached only when render is true
Render ==
    /\ pc = "render"
    /\ renderCalls' = renderCalls + 1
    /\ \/ /\ Raise("env.render")
          /\ UNCHANGED <<frames, badFrames>>
       \/ \E frame \in FrameKinds :
             /\ frames' = IF KeepFrame(frame)
                          THEN Append(frames, ep_len)
                          ELSE frames
             /\ badFrames' = IF frame = "image"
                             THEN badFrames
                             ELSE badFrames + 1
             /\ pc' = "check"
             /\ UNCHANGED exc
    /\ UNCHANGED <<cfgVars, mainVars, key, sub, obs, batched, action, ep_ret,
                   ep_len, terminated, truncated, info, envTop, deterministic,
                   resetMemo, envMemo, polMemo, videos, resetCalls, batchCalls,
                   sampleCalls, stepCalls, rewards, epActions, epSampled,
                   rawObs, epSubs, epKeys, endedAt, runs>>

\* lines 58-59
Check ==
    /\ pc = "check"
    /\ pc' = IF LoopExit(terminated, truncated, ep_len)
             THEN "flush"
             ELSE LoopHead
    /\ UNCHANGED <<cfgVars, mainVars, locVars, envVars, histVars>>

\* lines 62-66: os.makedirs and imageio.mimsave are not guarded by a try
Flush ==
    /\ pc = "flush"
    /\ IF FlushGuard
       THEN \/ /\ Raise("os.makedirs")
               /\ UNCHANGED <<videos, out>>
            \/ /\ Dirname(record_path) # ""   \* os.makedirs("") always raises
               /\ Raise("imageio.mimsave")
               /\ UNCHANGED <<videos, out>>
            \/ /\ Dirname(record_path) # ""
               /\ videos' = videos \cup {Video(record_path, frames)}
               /\ out' = Append(out, [kind |-> "video", path |-> record_path])
               /\ pc' = "return"
               /\ UNCHANGED exc
       ELSE /\ pc' = "return"
            /\ UNCHANGED <<videos, out, exc>>
    /\ UNCHANGED <<cfgVars, episodes, video_out, i, rets, locVars, envTop,
                   deterministic, resetMemo, envMemo, polMemo, histVars>>

\* line 68
Return ==
    /\ pc = "return"
    /\ info' = Result
    /\ runs' = Append(runs, [actions |-> epActions, subs |-> epSubs,
                             keys |-> epKeys, result |-> Result])
    /\ pc' = IF caller = "main" THEN "report" ELSE "returned"
    /\ UNCHANGED <<cfgVars, mainVars, key, sub, frames, obs, batched, action,
                   ep_ret, ep_len, terminated, truncated, envVars, resetCalls,
                   batchCalls, sampleCalls, stepCalls, renderCalls, rewards,
                   epActions, epSampled, rawObs, epSubs, epKeys, endedAt,
                   badFrames>>

RunEpisode == Enter \/ Sample \/ Step \/ Render \/ Check \/ Flush \/ Return

----------------------------------------------------------------------------
(* run_episode called once, with arbitrary arguments *)

RecordPaths == {None, EmptyPath, BarePath(0), DirPath(0)}

InitLocals ==
    /\ key = <<>> /\ sub = <<>>
    /\ frames = <<>>
    /\ obs = NoObs /\ batched = <<>> /\ action = 0
    /\ ep_ret = 0 /\ ep_len = 0
    /\ terminated = FALSE /\ truncated = FALSE
    /\ info = [return_ |-> 0, length |-> 0]

InitHistory ==
    /\ resetCalls = 0 /\ batchCalls = 0 /\ sampleCalls = 0
    /\ stepCalls = 0 /\ renderCalls = 0
    /\ rewards = <<>> /\ epActions = <<>> /\ epSampled = <<>>
    /\ rawObs = NoObs
    /\ epSubs = <<>> /\ epKeys = <<>>
    /\ endedAt = 0 /\ badFrames = 0
    /\ runs = <<>>

\* The backend matters only to an image that line 32 wants resized: the other
\* forms of observation are run with a working backend, and the form without
\* pixels/top with a missing one too.
Worlds ==
    ({"works"} \X TopKinds)
        \cup ({"missing"} \X {"absent", "other"})
        \cup ({"raises"} \X {"other"})

InitWorld ==
    /\ imageio \in BOOLEAN
    /\ \E w \in Worlds : cv2 = w[1] /\ envTop = w[2]
    /\ resetMemo = <<>> /\ envMemo = EmptyMemo /\ polMemo = EmptyMemo
    /\ videos = {}
    /\ exc = "none"

Init ==
    /\ InitWorld
    /\ deterministic = FALSE
    /\ caller = "direct"
    /\ render \in BOOLEAN
    \* The form of the observations bears on obs alone and the rendering on
    \* frames alone: the forms are varied without rendering, and the rendering
    \* is run on the form the resize acts on.
    /\ render => (cv2 = "works" /\ envTop = "other")
    /\ record_path \in RecordPaths
    /\ max_steps \in 0..MaxCeil
    /\ episodes = 0 /\ video_out = "videos/ep{}" /\ i = 0
    /\ rets = <<>> /\ out = <<>>
    /\ pc = "enter"
    /\ InitLocals
    /\ InitHistory

Next == RunEpisode

Spec == Init /\ [][Next]_vars

----------------------------------------------------------------------------
(* main *)

\* values of --video_out: the default has a directory part (line 78)
Templates == {"videos/ep{}", "ep{}", ""}

\* args.video_out.format(i)
Format(t, n) ==
    CASE t = "videos/ep{}" -> DirPath(n)
      [] t = "ep{}"        -> BarePath(n)
      [] OTHER             -> EmptyPath

\* a bug: the return of the last episode reported as the mean
Mean_Last(xs) ==
    IF Len(xs) = 0
    THEN [nan |-> TRUE, num |-> 0, den |-> 1]
    ELSE [nan |-> FALSE, num |-> xs[Len(xs)], den |-> 1]

\* np.mean(rets) as the fraction sum/count; numpy yields nan for an empty list
Mean(xs) ==
    IF Len(xs) = 0
    THEN [nan |-> TRUE, num |-> 0, den |-> 1]
    ELSE [nan |-> FALSE, num |-> Sum(xs), den |-> Len(xs)]

\* lines 113-115: the next episode is started with the default max_steps
MainLoop ==
    /\ pc = "main"
    /\ i < episodes
    /\ record_path' = IF render THEN Format(video_out, i) ELSE None
    /\ max_steps' = DefaultMaxSteps
    /\ pc' = "enter"
    /\ UNCHANGED <<imageio, cv2, caller, render, mainVars, locVars, envVars,
                   histVars>>

\* lines 116-117; the locals of the finished call are gone
Report ==
    /\ pc = "report"
    /\ out' = Append(out, [kind |-> "episode", index |-> i,
                           return_ |-> info.return_, length |-> info.length])
    /\ rets' = Append(rets, info.return_)
    /\ i' = i + 1
    /\ pc' = "main"
    /\ key' = <<>> /\ sub' = <<>> /\ frames' = <<>>
    /\ obs' = NoObs /\ batched' = <<>> /\ action' = 0
    /\ ep_ret' = 0 /\ ep_len' = 0
    /\ terminated' = FALSE /\ truncated' = FALSE
    /\ resetCalls' = 0 /\ batchCalls' = 0 /\ sampleCalls' = 0
    /\ stepCalls' = 0 /\ renderCalls' = 0
    /\ rewards' = <<>> /\ epActions' = <<>> /\ epSampled' = <<>>
    /\ rawObs' = NoObs
    /\ epSubs' = <<>> /\ epKeys' = <<>>
    /\ endedAt' = 0 /\ badFrames' = 0
    /\ UNCHANGED <<cfgVars, episodes, video_out, info, envVars, runs>>

\* line 119
Summary ==
    /\ pc = "main"
    /\ i >= episodes
    /\ out' = Append(out, [kind |-> "summary", mean |-> Mean(rets),
                           episodes |-> Len(rets)])
    /\ pc' = "exit"
    /\ UNCHANGED <<cfgVars, episodes, video_out, i, rets, locVars, envVars,
                   histVars>>

InitMain ==
    /\ InitWorld
    /\ <<cv2, envTop>> \in {<<"works", "other">>, <<"missing", "absent">>}
    /\ deterministic \in BOOLEAN
    /\ caller = "main"
    /\ render \in BOOLEAN
    /\ video_out \in Templates
    /\ episodes \in 0..MaxEpisodes
    /\ record_path = None
    /\ max_steps = DefaultMaxSteps
    /\ i = 0 /\ rets = <<>> /\ out = <<>>
    /\ pc = "main"
    /\ InitLocals
    /\ InitHistory

NextMain == MainLoop \/ RunEpisode \/ Report \/ Summary

SpecMain == InitMain /\ [][NextMain]_vars

\* main() with an environment and a policy that are functions of their
\* inputs, with the default --video_out, in the configurations in which no
\* frame is captured
InitRepro ==
    /\ InitMain
    /\ deterministic
    /\ video_out = "videos/ep{}"
    /\ ~(render /\ imageio)

SpecRepro == InitRepro /\ [][NextMain]_vars

----------------------------------------------------------------------------
(* Claims about run_episode *)

\* positions after the loop of lines 42-59
Exited == {"flush", "return", "returned"}

FlushErrors == {"os.makedirs", "imageio.mimsave"}

Distinct(seq) ==
    \A a, b \in 1..Len(seq) : a # b => seq[a] # seq[b]

\* C1: for every ceiling max_steps, run_episode makes at most max_steps calls
\* of env.step (stated for the runs no exception has ended).
C1_AtMostCeilingSteps == pc # "raised" => stepCalls <= max_steps

\* C2: the loop goes on only while the env has reported nothing and the length
\* is below the ceiling; it is left at the step of the first report, or, with
\* no report, with length equal to the ceiling.
C2_EndsAtFirstCause ==
    /\ pc = "loop" => (endedAt = 0 /\ ep_len < max_steps)
    /\ (pc \in Exited /\ endedAt # 0) => ep_len = endedAt
    /\ (pc \in Exited /\ endedAt = 0) => ep_len = max_steps

\* C3: when the env first reports terminated or truncated at step n, n not
\* above the ceiling, the result returned has length n and return the sum of
\* the n rewards received.
C3_ReturnsSumAndCount ==
    (pc = "returned" /\ endedAt # 0 /\ endedAt <= max_steps)
        => /\ info.length = endedAt
           /\ Len(rewards) = endedAt
           /\ info.return_ = Sum(rewards)

C3_Witness ==
    /\ pc = "returned"
    /\ endedAt = 2
    /\ rewards = <<1, 1>>
    /\ info = [return_ |-> 2, length |-> 2]

\* C4: while the episode runs, and in the result returned, length is the
\* number of env.step calls made.  (After an exception there is no episode
\* state left: a raising env.step is a call made and not counted.)
C4_LengthIsStepCount ==
    /\ pc # "raised" => ep_len = stepCalls
    /\ pc = "returned" => info.length = stepCalls

C4_Witness ==
    /\ pc = "returned"
    /\ stepCalls = 2
    /\ info.length = 2

\* C6: within one episode the sub-keys passed to the policy are pairwise
\* distinct, the key differs at every step, and no value serves both as a key
\* and as a sub-key.
C6_NoSeedReuse ==
    /\ Distinct(epSubs)
    /\ Distinct(epKeys)
    /\ \A a \in 1..Len(epSubs) : \A b \in 1..Len(epKeys) : epSubs[a] # epKeys[b]
    /\ \A a \in 1..Len(epSubs) : epSubs[a] # key
    /\ \A b \in 1..Len(epKeys) : epKeys[b] # key

C6_Witness ==
    /\ pc = "returned"
    /\ Len(epSubs) >= 2

\* C7: with render false the frame buffer stays empty, env.render is never
\* called and no video is written, whatever record_path is.
C7_NoRenderNoVideo ==
    ~render =>
        /\ frames = <<>>
        /\ renderCalls = 0
        /\ videos = {}
        /\ \A n \in 1..Len(out) : out[n].kind # "video"

C7_Witness ==
    /\ ~render
    /\ pc = "returned"
    /\ Truthy(record_path)
    /\ imageio
    /\ ep_len >= 1

\* C8, as claimed: whenever run_episode returns with a non-empty frame buffer,
\* the buffer has been written to a video, whatever render and record_path.
C8_AlwaysFlushed ==
    (pc = "returned" /\ frames # <<>>)
        => \E v \in videos : v.frames = frames

\* C8, amended: whenever run_episode returns with a non-empty frame buffer and
\* a record_path that is neither None nor empty, the buffer has been written
\* to the video at record_path.
C8_FlushedWhenPathGiven ==
    (pc = "returned" /\ frames # <<>> /\ Truthy(record_path))
        => Video(record_path, frames) \in videos

C8_Witness ==
    /\ pc = "returned"
    /\ Len(frames) = 2
    /\ Video(record_path, frames) \in videos

\* C9: an error of os.makedirs or imageio.mimsave during the flush never ends
\* run_episode with an exception.
C9_FlushErrorNotFatal == ~(pc = "raised" /\ exc \in FlushErrors)

\* C10: with render true, when the backend is missing or env.render returned
\* something that is no image, that frame is not appended, the flush raises
\* nothing, nothing is written while no frame was captured, and the result is
\* the sum of the rewards and the number of steps.
C10_RenderFailureHarmless ==
    (render /\ (~imageio \/ badFrames > 0)) =>
        /\ Len(frames) + badFrames <= renderCalls
        /\ ~imageio => frames = <<>>
        /\ exc \notin FlushErrors
        /\ frames = <<>> => videos = {}
        /\ pc = "returned" => info = [return_ |-> Sum(rewards),
                                      length |-> stepCalls]

----------------------------------------------------------------------------
(* Claims about the runs of one evaluation *)

\* C5: when the environment and the policy are functions of their inputs, any
\* two completed calls of run_episode submitted the same actions, drew the
\* same sub-keys and returned the same result.
C5_Reproducible ==
    deterministic =>
        \A a, b \in 1..Len(runs) :
            /\ runs[a].actions = runs[b].actions
            /\ runs[a].subs = runs[b].subs
            /\ runs[a].result = runs[b].result

C5_Witness ==
    /\ deterministic
    /\ Len(runs) = 2
    /\ Len(runs[2].actions) = 2

EnvErrors == {"env.reset", "env.step", "env.render"}

EpisodeLines == SelectSeq(out, LAMBDA l : l.kind = "episode")

SummaryLines == SelectSeq(out, LAMBDA l : l.kind = "summary")

\* C11: once env.reset, env.step or env.render has raised, the program has
\* stopped: the failing episode has returned no result, only the episodes
\* before it are reported, and no summary line is printed.
C11_EnvErrorAborts ==
    exc \in EnvErrors =>
        /\ pc = "raised"
        /\ Len(runs) = i
        /\ Len(rets) = i
        /\ Len(EpisodeLines) = i
        /\ SummaryLines = <<>>

C11_Witness ==
    /\ exc = "env.render"
    /\ i = 1
    /\ Len(EpisodeLines) = 1

\* the causes for leaving the loop that hold now
Causes ==
    (IF terminated THEN {"terminated"} ELSE {})
        \cup (IF truncated THEN {"truncated"} ELSE {})
        \cup (IF ep_len >= max_steps THEN {"ceiling"} ELSE {})

\* C12, as claimed: when the loop has been left, exactly one of terminated,
\* truncated and ceiling reached holds.
C12_ExactlyOneCause == pc \in Exited => Cardinality(Causes) = 1

\* C12, amended: when the loop has been left, at least one of the three holds
\* (several may hold at once); when it goes on after a step, none holds.
C12_AtLeastOneCause ==
    /\ pc \in Exited => Causes # {}
    /\ (pc = "loop" /\ stepCalls > 0) => Causes = {}

C12_Witness ==
    /\ pc = "returned"
    /\ Causes = {"terminated", "truncated", "ceiling"}
    /\ ep_len = 2

\* C13: one batched observation is derived per environment step: the number
\* of _obs_to_batched calls equals the number of env.step calls at every point
\* of an episode, the return included, but between the batching and the step
\* of one iteration (where agent.sample_actions may have ended the run), when
\* it is one more.
C13_OneBatchPerStep ==
    \/ batchCalls = stepCalls
    \/ /\ batchCalls = stepCalls + 1
       /\ pc = "step" \/ exc = "agent.sample_actions"

C13_Witness ==
    /\ pc = "returned"
    /\ batchCalls = 2
    /\ stepCalls = 2

\* obs holds an observation of the environment
ObsBound == pc # "enter" /\ exc # "env.reset"

\* C14: when the resize backend is missing or the resize call raises, and
\* when the observation has no pixels/top field, _resize_top returns the
\* observation it was given, the run is not ended by it, and the episode goes
\* on with that observation.
C14_ResizeFailureSwallowed ==
    (ObsBound /\ (cv2 \in {"missing", "raises"} \/ ~HasTop(rawObs))) =>
        /\ obs = rawObs
        /\ exc \in {"none", "env.step", "env.render", "os.makedirs",
                    "imageio.mimsave"}
        /\ pc = "step" => batched = _obs_to_batched(rawObs)

C14_Witness ==
    /\ cv2 = "raises"
    /\ pc = "returned"
    /\ stepCalls = 2
    /\ HasTop(rawObs) /\ NeedsResize(rawObs.pixels.top)
    /\ obs = rawObs

\* an array with a height and a width, and its resolution
IsImage(x) == x.nd /\ Len(x.shape) >= 2
Resolution(x) == SubSeq(x.shape, 1, 2)

\* the environment's pixels/top is an image at a resolution that is not img_hw
WrongResolution ==
    /\ envTop \notin {"flat", "absent"}
    /\ IsImage(TopLeaf(envTop))
    /\ Resolution(TopLeaf(envTop)) # img_hw

\* the output has pixels/top at img_hw, its other fields are those of the
\* input, and the input is as the environment returned it
ResizedTopOnly ==
    /\ Resolution(obs.pixels.top) = img_hw
    /\ DOMAIN obs = DOMAIN rawObs
    /\ DOMAIN obs.pixels = DOMAIN rawObs.pixels
    /\ obs.state = rawObs.state
    /\ obs.pixels.wrist = rawObs.pixels.wrist
    /\ rawObs.pixels.top = TopLeaf(envTop)

\* C15, as claimed: when the observation has pixels/top at a resolution other
\* than the target and the resize backend works, the output of _resize_top
\* has pixels/top at the target resolution, every other field equal to the
\* input's, and the input is not modified.
C15_WrongResolutionResized ==
    (ObsBound /\ cv2 = "works" /\ WrongResolution) => ResizedTopOnly

\* C15, amended: the same, when pixels/top is an array of three dimensions
\* (H, W, C); an image of two dimensions (H, W) is passed on as it is.
C15_ThreeDimResized ==
    /\ (ObsBound /\ cv2 = "works" /\ WrongResolution
            /\ Len(TopLeaf(envTop).shape) = 3) => ResizedTopOnly
    /\ (ObsBound /\ WrongResolution /\ Len(TopLeaf(envTop).shape) # 3)
            => obs = rawObs

C15_Witness ==
    /\ pc = "returned"
    /\ cv2 = "works"
    /\ envTop = "other"
    /\ stepCalls = 2
    /\ obs # rawObs
    /\ ResizedTopOnly

\* b has the keys and the nesting of ob, and each of its leaves is the leaf
\* of ob at the same place with one leading dimension of size 1 added
RECURSIVE IsBatchOf(_, _)
IsBatchOf(ob, b) ==
    IF IsLeaf(ob)
    THEN /\ IsLeaf(b)
         /\ b.shape = <<1>> \o ob.shape
         /\ b.dtype = ob.dtype
         /\ b.data = ob.data
    ELSE /\ ~IsLeaf(b)
         /\ DOMAIN b = DOMAIN ob
         /\ \A k \in DOMAIN ob : IsBatchOf(ob[k], b[k])

\* C16: for a flat array and for a nested mapping of names to arrays, what
\* _obs_to_batched returns has the keys and the nesting of its argument, and
\* every leaf is the argument's leaf with one leading dimension of size 1
\* added and nothing else changed.
C16_BatchPreservesStructure ==
    pc = "step" => IsBatchOf(obs, batched)

C16_Witness ==
    /\ pc = "step"
    /\ stepCalls = 1
    /\ envTop = "target"
    /\ DOMAIN batched = {"state", "pixels"}
    /\ DOMAIN batched.pixels = {"wrist", "top"}
    /\ batched.pixels.top.shape = <<1, 2, 3, 3>>
    /\ batched.state.shape = <<1, 2>>

\* the positions of run_episode
InEpisode == {"enter", "loop", "step", "render", "check", "flush", "return"}

\* the returns of the completed run_episode calls, in order
RunReturns == [k \in 1..Len(runs) |-> runs[k].result.return_]

\* the k-th episode line reports index k - 1 and the result of the k-th call
LineOf(k) ==
    /\ EpisodeLines[k].index = k - 1
    /\ EpisodeLines[k].return_ = runs[k].result.return_
    /\ EpisodeLines[k].length = runs[k].result.length

\* the summary line is the last line, and reports the mean of the returns of
\* all the episodes (nan when there is none) and their number
SummaryOf(line) ==
    /\ out[Len(out)] = line
    /\ line.episodes = episodes
    /\ line.mean.nan = (episodes = 0)
    /\ line.mean.num * episodes = Sum(RunReturns) * line.mean.den

C17_Sequential ==
    exc = "none" =>
        /\ i <= episodes
        /\ pc \in InEpisode => i < episodes
        /\ Len(runs) = IF pc = "report" THEN i + 1 ELSE i
        /\ Len(EpisodeLines) = i
        /\ \A k \in 1..i : LineOf(k)
        /\ rets = SubSeq(RunReturns, 1, i)
        /\ pc # "exit" => SummaryLines = <<>>
        /\ pc = "exit" =>
              /\ i = episodes
              /\ Len(SummaryLines) = 1
              /\ SummaryOf(SummaryLines[1])

C17_OnlyMainAppends ==
    rets' # rets =>
        /\ pc = "report" /\ pc' = "main"
        /\ rets' = Append(rets, info.return_)
        /\ i' = i + 1

\* C17: when nothing fails, the episodes run one after another in the order
\* of their indexes 0..N-1, each completed episode is reported by one line
\* (index, return, length) and adds one entry to rets, which nothing but the
\* loop of main changes, and the one summary line, the last, reports the mean
\* return of the N episodes and the count N.
C17_SequentialReport == []C17_Sequential /\ [][C17_OnlyMainAppends]_vars

C17_Witness ==
    /\ pc = "exit"
    /\ exc = "none"
    /\ episodes = 2
    /\ rets = <<1, 2>>
    /\ Len(EpisodeLines) = 2
    /\ SummaryLines[1].mean = [nan |-> FALSE, num |-> 3, den |-> 2]

\* C18: when a leaf of the observation cannot be coerced to a numeric array,
\* the batching of that observation fails with an error (MalformedObservation)
\* that ends the episode: no action is sampled and no environment step is
\* taken for that observation.
C18_MalformedIsFatal ==
    (ObsBound /\ HasText(obs) /\ batchCalls > 0) =>
        /\ pc = "raised"
        /\ epSampled = <<>>
        /\ stepCalls = 0

\* C19: in one episode env.reset is called once and before any other call;
\* each iteration batches, splits the key and queries the policy once, then
\* steps once with the action the policy has just answered, so that the
\* actions submitted are the actions sampled, each once and in order; a
\* render, when asked for, follows each step; and what the policy is given
\* is the batch of the resized observation the environment returned last.
C19_CallOrder ==
    /\ pc = "enter" =>
          /\ resetCalls = 0 /\ batchCalls = 0 /\ sampleCalls = 0
          /\ stepCalls = 0 /\ renderCalls = 0
    /\ pc # "enter" => resetCalls = 1
    /\ sampleCalls = batchCalls
    /\ Len(epKeys) = batchCalls
    /\ Len(epActions) = stepCalls
    /\ Len(epSampled) = stepCalls + (IF pc = "step" THEN 1 ELSE 0)
    /\ epActions = SubSeq(epSampled, 1, stepCalls)
    /\ renderCalls = IF render
                     THEN stepCalls
                            - (IF pc = "render" \/ exc = "env.step" THEN 1 ELSE 0)
                     ELSE 0
    /\ ObsBound => obs = _resize_top(rawObs)
    /\ pc = "step" =>
          /\ action = epSampled[Len(epSampled)]
          /\ batched = _obs_to_batched(obs)

C19_Witness ==
    /\ pc = "returned"
    /\ render
    /\ renderCalls = 2
    /\ epSampled = <<1, 0>>
    /\ epActions = <<1, 0>>
    /\ obs # rawObs

\* the calls of run_episode so far: the completed ones, and the current one
\* once it has split its key
Episodes ==
    [k \in 1..Len(runs) |-> [keys |-> runs[k].keys, subs |-> runs[k].subs]]
        \o (IF pc \in InEpisode /\ epKeys # <<>>
            THEN <<[keys |-> epKeys, subs |-> epSubs]>>
            ELSE <<>>)

\* the episodes e and f have the same root key and, where both have taken a
\* k-th step, the same k-th sub-key
SamePrefix(e, f) ==
    LET n == IF Len(e.subs) < Len(f.subs) THEN Len(e.subs) ELSE Len(f.subs) IN
    /\ (e.keys # <<>> /\ f.keys # <<>>) => e.keys[1] = f.keys[1]
    /\ SubSeq(e.subs, 1, n) = SubSeq(f.subs, 1, n)

\* C20: every call of run_episode starts from the same root key, and the
\* sub-key handed to the policy at step k is the same in every episode of a
\* run of main, whatever the episode's index and whatever happened in the
\* episodes before it.
C20_SameSeedsEveryEpisode ==
    LET eps == Episodes IN
    \A a, b \in 1..Len(eps) :
        a < b => SamePrefix(eps[a], eps[b])

C20_Witness ==
    /\ Len(runs) = 2
    /\ Len(runs[1].subs) = 2
    /\ runs[2].subs = runs[1].subs
    /\ runs[2].actions # runs[1].actions
    /\ runs[2].result # runs[1].result

====
